---- MODULE Spec2Model ----
(***************************************************************************)
(* Model of packages/amplify-cli/src/extensions/amplify-helpers/           *)
(* auth-notifications.ts: the three security-migration notification        *)
(* policies, the notification flag helper and the schema touch service.    *)
(*                                                                         *)
(* One JavaScript process runs the policies one after another.  Every      *)
(* action below is one synchronous run of the code between two points      *)
(* where it suspends (an await on I/O, the prompt).  Work that the code    *)
(* starts without awaiting it (fs.appendFile, and modifyGraphQLSchema in   *)
(* two of the policies) goes on in the background and is modelled by the   *)
(* actions BackgroundWalk and AppendLands.                                 *)
(***************************************************************************)
EXTENDS Integers, Sequences, FiniteSets, Bags, TLC

\* ------------------------------------------------------------------ bounds
\* Largest number of entries (files, directories, links) of a schema
\* directory tree drawn by InitTouch.
MaxNodes == 3

\* Largest number of policy invocations in one run of the process.
MaxCalls == 2

VARIABLES
  cliExists,              \* the project config file (cli.json) is present
  cliJson,                \* features.graphqltransformer of the config file
  ffValues,               \* process-wide FeatureFlags values
  meta,                   \* amplify-meta: [api: services, auth: BOOLEAN]
  apiDirExists,           \* resource directory of the first AppSync API exists
  schema,                 \* schema returned by readProjectConfiguration
  resolvers,              \* files of <api>/build/resolvers, <<>> if absent
  resolverDirExists,      \* <api>/build/resolvers exists
  schemaFileExists,       \* <api>/schema.graphql exists
  schemaDirectoryExists,  \* <api>/schema exists
  tree,                   \* listing of <api>/schema (entries, recursively)
  pc,                     \* where the running policy is suspended
  cur,                    \* the running (or last) invocation and its locals
  bgWalks,                \* directory walks running that nobody awaits
  pending,                \* bag of appends issued and not yet on disk
  landed,                 \* bag of appends that reached the disk
  telemetry,              \* [started, done]: emitSuccess calls
  nextTick,               \* exit codes queued by exitOnNextTick
  halted,                 \* the process has exited
  calls,                  \* number of policy invocations so far
  shown,                  \* per policy: number of prompts shown so far
  ret,                    \* value returned by the last finished invocation
  out                     \* values returned by the functions applied alone

config  == <<cliExists, cliJson, ffValues>>
project == <<meta, apiDirExists, schema, resolvers, resolverDirExists,
             schemaFileExists, schemaDirectoryExists, tree>>
process == <<pc, cur, telemetry, nextTick, halted, calls, shown, ret>>
disk    == <<bgWalks, pending, landed>>
vars    == <<config, project, process, disk, out>>

\* exitOnNextTick has been called: the exit runs on the next tick
exitRequested == nextTick # <<>>

\* --------------------------------------------------------------- file names
\* A file name is the sequence of its characters; only the characters the
\* code looks at are kept, the position in the listing makes names distinct.
HiddenName == <<".", "s">>
PlainName  == <<"s", ".", "g">>
Names      == {HiddenName, PlainName}

\* a name with a dot anywhere taken for a hidden one
containsDot(fileName) == \E i \in DOMAIN fileName : fileName[i] = "."

\* fileName.indexOf('.') === 0
isHiddenFile(fileName) == Len(fileName) > 0 /\ fileName[1] = "."

\* Paths are sequences of positions: <<0>> is <api>/schema.graphql, <<1>> is
\* <api>/schema, <<1, i>> the i-th entry of its listing, and so on.
schemaFilePath      == <<0>>
schemaDirectoryPath == <<1>>

\* The content written by both fs.appendFile calls.
Whitespace == " "

\* fs.appendFile(path, ' '): the append as issued, not yet on disk.
\* by is the number of the policy invocation that issued it (0: none).
appendFile(path, by) == [file |-> path, data |-> Whitespace, by |-> by]

\* ------------------------------------------------------- schema directories
\* An entry is [name, kind, children]; kind is what lstat reports: "file"
\* (isFile), "dir" (isDirectory) or "link" (neither).
RECURSIVE Forests(_)
RECURSIVE Entries(_)
\* the entries that, with everything below them, are exactly n nodes
Entries(n) ==
  IF n = 0 THEN {}
  ELSE (IF n = 1
          THEN { [name |-> nm, kind |-> k, children |-> <<>>] :
                   nm \in Names, k \in {"file", "link"} }
          ELSE {})
       \cup { [name |-> nm, kind |-> "dir", children |-> c] :
                nm \in Names, c \in Forests(n - 1) }
\* the listings of exactly n nodes
Forests(n) ==
  IF n = 0 THEN { <<>> }
  ELSE UNION { { <<e>> \o r : e \in Entries(k), r \in Forests(n - k) } :
               k \in 1..n }

Trees == UNION { Forests(n) : n \in 0..MaxNodes }

\* every path of a listing, files and directories alike
RECURSIVE PathsOf(_, _)
PathsOf(files, at) ==
  UNION { {Append(at, i)} \cup PathsOf(files[i].children, Append(at, i)) :
          i \in 1..Len(files) }

\* the entry at path p (p is below at)
RECURSIVE EntryAt(_, _)
EntryAt(files, rest) ==
  IF Len(rest) = 1 THEN files[rest[1]]
  ELSE EntryAt(files[rest[1]].children, Tail(rest))

\* ------------------------------------------------------ SchemaTouchService
\* modifyGraphQLSchemaDirectory(schemaDirectoryPath): the loop over the
\* listing from entry i on.  ret is the value returned, issued the appends
\* issued on the way, in order.
RECURSIVE walkFrom(_, _, _, _)
walkFrom(files, i, at, by) ==
  IF i > Len(files) THEN [ret |-> FALSE, issued |-> <<>>]
  ELSE
    LET fileName == files[i].name
        fullPath == Append(at, i)
        stats    == files[i].kind
    IN  IF isHiddenFile(fileName) THEN walkFrom(files, i + 1, at, by)
        ELSE IF stats = "dir"
          THEN LET sub == walkFrom(files[i].children, 1, fullPath, by)
               IN  IF sub.ret THEN [ret |-> TRUE, issued |-> sub.issued]
                   ELSE LET rest == walkFrom(files, i + 1, at, by)
                        IN  [ret    |-> rest.ret,
                             issued |-> sub.issued \o rest.issued]
        ELSE IF stats = "file"
          THEN [ret |-> TRUE, issued |-> <<appendFile(fullPath, by)>>]
        ELSE walkFrom(files, i + 1, at, by)

modifyGraphQLSchemaDirectory(files, at, by) == walkFrom(files, 1, at, by)

\* the two tests of modifyGraphQLSchema in the other order
directoryFirst(fileExists, directoryExists, by) ==
  IF directoryExists
    THEN [issued |-> <<>>, walk |-> TRUE]
  ELSE IF fileExists
    THEN [issued |-> <<appendFile(schemaFilePath, by)>>, walk |-> FALSE]
  ELSE [issued |-> <<>>, walk |-> FALSE]

\* modifyGraphQLSchema(apiResourceDir), up to its first suspension: the
\* appends it issues at once and whether it goes on to walk the directory.
modifyGraphQLSchema(fileExists, directoryExists, by) ==
  IF fileExists
    THEN [issued |-> <<appendFile(schemaFilePath, by)>>, walk |-> FALSE]
  ELSE IF directoryExists
    THEN [issued |-> <<>>, walk |-> TRUE]
  ELSE [issued |-> <<>>, walk |-> FALSE]

\* the bag of the elements of a sequence
RECURSIVE SeqToBag(_)
SeqToBag(s) ==
  IF s = <<>> THEN EmptyBag ELSE SetToBag({Head(s)}) (+) SeqToBag(Tail(s))

\* ------------------------------------------------------------ feature flags
fieldAuthFlag == "showfieldauthnotification"
securityFlag  == "securityEnhancementNotification"
versionFlag   == "transformerversion"

\* the values of features.graphqltransformer
Features ==
  [showfieldauthnotification : BOOLEAN,
   securityEnhancementNotification : BOOLEAN,
   transformerversion : 1..2]

\* FeatureFlags.getBoolean / FeatureFlags.getNumber of graphqltransformer.<n>
getBoolean(flagName) == ffValues[flagName]
getNumber(flagName)  == ffValues[flagName]

\* a config written back without the new value
withFlagLost(configValue, flagName, value) == configValue

\* config.features.graphqltransformer[flagName] = value
withFlag(configValue, flagName, value) ==
  [configValue EXCEPT ![flagName] = value]

\* FeatureFlags.reloadValues(): the process-wide values read again from the
\* project config file.
reloadValues == IF cliExists THEN cliJson ELSE ffValues

\* ------------------------------------------------------------ project state
AppSync == "AppSync"

\* names of the AppSync resources of meta.api, in order
apiNames == SelectSeq(meta.api, LAMBDA service : service = AppSync)

containsGraphQLApi ==
  IF Len(apiNames) < 1 THEN FALSE
  ELSE IF ~apiDirExists THEN FALSE
  ELSE TRUE

\* getApiResourceDir() returned a directory (and not undefined)
getApiResourceDir == containsGraphQLApi

\* ----------------------------------------------------------------- schemas
\* A schema is the sequence of its type definitions
\*   [name, directives, fields]
\* a directive is [name, arguments], an argument [name, value], a value
\* [kind, value, fields] and a field definition [type, directives], type
\* being the kind of its type node.
NullValue == [kind |-> "NullValue", value |-> "", fields |-> <<>>]
Scalar(kind, v) == [kind |-> kind, value |-> v, fields |-> <<>>]
Object(fs) == [kind |-> "ObjectValue", value |-> "", fields |-> fs]
Directive(n, args) == [name |-> n, arguments |-> args]
Argument(n, v) == [name |-> n, value |-> v]
Field(type, dirs) == [type |-> type, directives |-> dirs]

Range(s) == { s[i] : i \in DOMAIN s }
Some(s, P(_)) == \E i \in DOMAIN s : P(s[i])

\* collectDirectivesByType(schema): type name -> directives of the type
collectDirectivesByType(doc) ==
  [typeName \in { def.name : def \in Range(doc) } |->
     (CHOOSE def \in Range(doc) : def.name = typeName).directives]

\* collectDirectivesByTypeNames(schema).types: type name -> directive names
collectDirectivesByTypeNames(doc) ==
  LET byType == collectDirectivesByType(doc)
  IN  [typeName \in DOMAIN byType |->
         { dir.name : dir \in Range(byType[typeName]) }]

\* a type counts when one field has @auth and one field is non-nullable
hasAuthAndNonNull(doc) ==
  { def.name : def \in { d \in Range(doc) :
      /\ Some(d.fields, LAMBDA field :
                Some(field.directives, LAMBDA dir : dir.name = "auth"))
      /\ Some(d.fields, LAMBDA field : field.type = "NonNullType") } }

hasFieldAuthDirectives(doc) ==
  LET qualifies(field) ==
        LET nonNullable == field.type = "NonNullType"
            hasAuth == Some(field.directives, LAMBDA dir : dir.name = "auth")
        IN  hasAuth /\ nonNullable
  IN  { def.name : def \in { d \in Range(doc) : Some(d.fields, qualifies) } }

\* the model type and the field-auth type need not be the same type
displayAnyType(directiveMap, fieldDirectives) ==
  /\ getNumber(versionFlag) = 2
  /\ fieldDirectives # {}
  /\ \E typeName \in DOMAIN directiveMap :
       \E dir \in Range(directiveMap[typeName]) :
         /\ dir.name = "model"
         /\ \E arg \in Range(dir.arguments) :
              /\ arg.name = "subscriptions"
              /\ arg.value.kind = "NullValue"

displayAuthNotification(directiveMap, fieldDirectives) ==
  LET usesTransformerV2 == getNumber(versionFlag) = 2
      subscriptionOff(typeObj) ==
        LET models == SelectSeq(typeObj, LAMBDA dir : dir.name = "model")
            arguments == IF models = <<>> THEN <<>> ELSE models[1].arguments
            matches(arg) ==
              /\ arg.name = "subscriptions"
              /\ LET subscriptionNull == arg.value.kind = "NullValue"
                     levelFieldOffOrNull ==
                       Some(arg.value.fields, LAMBDA f :
                              /\ f.name = "level"
                              /\ (f.value.value = "off"
                                    \/ f.value.kind = "NullValue"))
                 IN  levelFieldOffOrNull \/ subscriptionNull
        IN  Some(arguments, matches)
      schemaHasValues ==
        \E typeName \in DOMAIN directiveMap :
          subscriptionOff(directiveMap[typeName])
            /\ typeName \in fieldDirectives
  IN  schemaHasValues /\ usesTransformerV2

\* @auth on a field counts as much as @auth on the type
hasAnyAuthDirective(doc) ==
  /\ getNumber(versionFlag) = 2
  /\ Some(doc, LAMBDA def :
       \/ Some(def.directives, LAMBDA dir : dir.name = "auth")
       \/ Some(def.fields, LAMBDA field :
                 Some(field.directives, LAMBDA dir : dir.name = "auth")))

hasV2AuthDirectives(doc) ==
  LET containsAuthDir ==
        Some(doc, LAMBDA def :
               Some(def.directives, LAMBDA dir : dir.name = "auth"))
      usesTransformerV2 == getNumber(versionFlag) = 2
  IN  containsAuthDir /\ usesTransformerV2

\* auth and primaryKey need not be on the same type
authAndKeyAnywhere(doc) ==
  LET types == collectDirectivesByTypeNames(doc)
  IN  /\ \E type \in DOMAIN types : "auth" \in types[type]
      /\ \E type \in DOMAIN types : "primaryKey" \in types[type]

\* notifySecurityEnhancement, lines 280-283
notifyAuthWithKey(doc) ==
  LET types == collectDirectivesByTypeNames(doc)
  IN  \E type \in DOMAIN types :
        "auth" \in types[type] /\ "primaryKey" \in types[type]

\* --------------------------------------------------------------- resolvers
\* A resolver file is [name, code]: name is the sequence of the parts of the
\* file name, code the sequence of the pieces of the template:
\*   "SET"  the #set( $filterExpression = ... ) assignment
\*   "WS"   one whitespace character
\*   "IF"   the #if( $util.isNullOrEmpty($filterExpression) ) guard
\*   "X"    any other text
startsWithQueryList(name) == Len(name) > 0 /\ name[1] = "Query.list"
endsWithReqVtl(name) == Len(name) > 0 /\ name[Len(name)] = ".req.vtl"
startsWithDot(name) == Len(name) > 0 /\ name[1] = "."

\* loadResolvers(apiResourceDirectory): the entries read, in listing order
loadResolvers ==
  IF resolverDirExists
    THEN SelectSeq(resolvers, LAMBDA f : ~startsWithDot(f.name))
    ELSE <<>>

\* number of "WS" pieces of code from position i on
RECURSIVE spaces(_, _)
spaces(code, i) ==
  IF i <= Len(code) /\ code[i] = "WS" THEN 1 + spaces(code, i + 1) ELSE 0

\* listQueryPattern matches with the assignment at position i: \s* gives
\* back whitespace until the lookahead, which skips whitespace itself, does
\* not see the guard.
matchesAt(code, i) ==
  /\ code[i] = "SET"
  /\ \E k \in 0..spaces(code, i + 1) :
       LET at == i + 1 + k + spaces(code, i + 1 + k)
       IN  ~(at <= Len(code) /\ code[at] = "IF")

\* listQueryPattern.test(code) with the pattern's lastIndex: the pattern is
\* global, so the search starts at lastIndex and leaves it after the match,
\* or at 0 when nothing matched.
test(code, lastIndex) ==
  LET starts == { i \in (lastIndex + 1)..Len(code) : matchesAt(code, i) }
  IN  IF starts = {} THEN [found |-> FALSE, lastIndex |-> 0]
      ELSE LET i == CHOOSE j \in starts : \A l \in starts : j <= l
           IN  [found |-> TRUE, lastIndex |-> i + spaces(code, i + 1)]

\* resolversToCheck.filter(resolver => listQueryPattern.test(resolver))
RECURSIVE filterTest(_, _)
filterTest(codes, lastIndex) ==
  IF codes = <<>> THEN <<>>
  ELSE LET r == test(Head(codes), lastIndex)
       IN  (IF r.found THEN <<Head(codes)>> ELSE <<>>)
             \o filterTest(Tail(codes), r.lastIndex)

\* every resolver read is checked, whatever its name
allResolvers(loaded) == [i \in DOMAIN loaded |-> loaded[i].code]

resolversToCheck(loaded) ==
  LET named == SelectSeq(loaded, LAMBDA f :
                 startsWithQueryList(f.name) /\ endsWithReqVtl(f.name))
  IN  [i \in DOMAIN named |-> named[i].code]

resolversToSecure(loaded) == filterTest(resolversToCheck(loaded), 0)

\* ---------------------------------------------------------------- policies
fieldAuth == "notifyFieldAuthSecurityChange"
listQuery == "notifyListQuerySecurityChange"
security  == "notifySecurityEnhancement"
Policies  == {fieldAuth, listQuery, security}

\* a gate that lets every call through
dontShowNever(flagName) == FALSE

\* const dontShowNotification = !FeatureFlags.getBoolean(...)
dontShowNotification(flagName) == ~getBoolean(flagName)

\* the flag a policy is gated by and clears
flagOf(policy) == IF policy = security THEN securityFlag ELSE fieldAuthFlag

\* every policy clears the flag of the field-auth policy
flagOfFieldAuth == fieldAuthFlag

\* the flag setNotificationFlag is called with by the running policy
flagName == flagOf(cur.policy)

\* a decline that emits nothing
emitNothing(t) == t

\* usageData.emitSuccess() called, and its promise resolved
emitSuccess(t) == [t EXCEPT !.started = @ + 1]

emitResolved(t) == [t EXCEPT !.done = @ + 1]

\* the locals of a fresh invocation; gate is the value of the gating flag
\* at the call (TRUE for the policy that has none)
Invocation(policy, gate) ==
  [policy |-> policy, schemaModified |-> FALSE, gate |-> gate,
   prompted |-> FALSE, answer |-> "none"]

Began(policy, at, value) ==
  /\ UNCHANGED out
  /\ pc = "idle" /\ ~exitRequested /\ ~halted
  /\ calls < MaxCalls
  /\ calls' = calls + 1
  /\ pc' = at
  /\ ret' = value
  /\ cur' = [Invocation(policy, policy = listQuery \/ ffValues[flagOf(policy)])
               EXCEPT !.prompted = (at = "prompt")]
  /\ shown' = IF at = "prompt" THEN [shown EXCEPT ![policy] = @ + 1]
                               ELSE shown
  /\ UNCHANGED <<config, project, disk, telemetry, nextTick, halted>>

\* lines 24-48: up to the prompt, to the call of setNotificationFlag, or to
\* the return
notifyFieldAuthSecurityChange ==
  IF dontShowNotification(fieldAuthFlag)
    THEN Began(fieldAuth, "idle", "false")
  ELSE IF ~getApiResourceDir
    THEN Began(fieldAuth, "ensure", "running")
  ELSE IF displayAuthNotification(collectDirectivesByType(schema),
                                  hasFieldAuthDirectives(schema))
    THEN Began(fieldAuth, "prompt", "running")
  ELSE Began(fieldAuth, "ensure", "running")

\* lines 81-107
notifyListQuerySecurityChange ==
  IF ~getApiResourceDir
    THEN Began(listQuery, "idle", "false")
  ELSE IF Len(resolversToSecure(loadResolvers)) = 0
    THEN Began(listQuery, "idle", "false")
  ELSE IF hasV2AuthDirectives(schema)
    THEN Began(listQuery, "prompt", "running")
  ELSE Began(listQuery, "idle", "false")

\* a gate that is always open
showSecurityAlways == TRUE

\* if (FeatureFlags.getBoolean('graphqltransformer.securityEnhancementNotification'))
showSecurityNotification == getBoolean(securityFlag)

\* a test that lets several APIs through
noApi(names) == Len(names) < 1

\* apiNames.length !== 1
notExactlyOne(names) == Len(names) # 1

\* lines 255-289
notifySecurityEnhancement ==
  IF ~showSecurityNotification
    THEN Began(security, "idle", "void")
  ELSE IF notExactlyOne(apiNames)
    THEN Began(security, "ensure", "running")
  ELSE IF ~apiDirExists
    THEN Began(security, "ensure", "running")
  ELSE IF meta.auth /\ notifyAuthWithKey(schema)
    THEN Began(security, "prompt", "running")
  ELSE Began(security, "ensure", "running")

\* modifyGraphQLSchema(apiResourceDir) called and not awaited
touchNotAwaited ==
  LET m == modifyGraphQLSchema(schemaFileExists, schemaDirectoryExists, calls)
  IN  /\ pending' = pending (+) SeqToBag(m.issued)
      /\ bgWalks' = IF m.walk THEN Append(bgWalks, calls) ELSE bgWalks
      /\ landed' = landed

\* modifyGraphQLSchema(apiResourceDir) started and the caller going on to at
\* without waiting for it
touchStarted(at) ==
  LET m == modifyGraphQLSchema(schemaFileExists, schemaDirectoryExists, calls)
  IN  /\ pending' = pending (+) SeqToBag(m.issued)
      /\ bgWalks' = IF m.walk THEN Append(bgWalks, calls) ELSE bgWalks
      /\ pc' = at
      /\ landed' = landed

\* await modifyGraphQLSchema(apiResourceDir): at is where the caller goes on
\* when the call is over
touchAwaited(at) ==
  LET m == modifyGraphQLSchema(schemaFileExists, schemaDirectoryExists, calls)
  IN  /\ pending' = pending (+) SeqToBag(m.issued)
      /\ pc' = IF m.walk THEN "touch" ELSE at
      /\ UNCHANGED <<bgWalks, landed>>

\* The code after the `if (!continueChange) { ... }` block, up to the next
\* suspension; c is the invocation.
\* lines 54-58
fieldAuthProceeds(c) ==
  /\ touchNotAwaited
  /\ cur' = [c EXCEPT !.schemaModified = TRUE]
  /\ pc' = "ensure"
  /\ UNCHANGED <<config, ret>>

\* a list-query policy that goes on to clear a flag as the field-auth one
listQueryClears(c) == fieldAuthProceeds(c)

\* lines 114-118
listQueryProceeds(c) ==
  /\ touchNotAwaited
  /\ cur' = [c EXCEPT !.schemaModified = TRUE]
  /\ pc' = "idle"
  /\ ret' = "true"
  /\ UNCHANGED config

\* the flag is cleared and the schema is never touched
securityClearsOnly(c) ==
  /\ pc' = "ensure"
  /\ cur' = c
  /\ UNCHANGED <<config, ret, disk>>

\* lines 296-298
securityProceeds(c) ==
  /\ touchAwaited("ensure")
  /\ cur' = c
  /\ UNCHANGED <<config, ret>>

Proceeds(c) ==
  \/ c.policy = fieldAuth /\ fieldAuthProceeds(c)
  \/ c.policy = listQuery /\ listQueryProceeds(c)
  \/ c.policy = security  /\ securityProceeds(c)

\* the prompt is answered Yes
AnswerYes ==
  /\ UNCHANGED out
  /\ pc = "prompt" /\ ~halted
  /\ Proceeds([cur EXCEPT !.answer = "yes"])
  /\ UNCHANGED <<project, telemetry, nextTick, halted, calls, shown>>

\* the prompt is answered No: emitSuccess() is called and awaited
AnswerNo ==
  /\ UNCHANGED out
  /\ pc = "prompt" /\ ~halted
  /\ cur' = [cur EXCEPT !.answer = "no"]
  /\ telemetry' = emitSuccess(telemetry)
  /\ pc' = "emit"
  /\ UNCHANGED <<config, project, disk, nextTick, halted, calls, shown,
                 ret>>

\* exitOnNextTick(code): the exit is queued for the next tick, the caller
\* goes on
exitOnNextTick(code) == nextTick' = Append(nextTick, code)

\* emitSuccess() resolved; exitOnNextTick(0) and the code after it run on
EmitDone ==
  /\ UNCHANGED out
  /\ pc = "emit" /\ ~halted
  /\ telemetry' = emitResolved(telemetry)
  /\ exitOnNextTick(0)
  /\ Proceeds(cur)
  /\ UNCHANGED <<project, halted, calls, shown>>

\* the awaited modifyGraphQLSchema of notifySecurityEnhancement walks the
\* schema directory and returns.  The listing needs I/O, which a queued exit
\* precedes.
TouchDone ==
  /\ UNCHANGED out
  /\ pc = "touch" /\ ~halted /\ ~exitRequested
  /\ LET w == modifyGraphQLSchemaDirectory(tree, schemaDirectoryPath, calls)
     IN  pending' = pending (+) SeqToBag(w.issued)
  /\ pc' = "ensure"
  /\ UNCHANGED <<config, project, bgWalks, landed, cur, telemetry,
                 nextTick, halted, calls, shown, ret>>

\* a modifyGraphQLSchema that was not awaited walks the schema directory
BackgroundWalk ==
  /\ UNCHANGED out
  /\ bgWalks # <<>> /\ ~halted /\ ~exitRequested
  /\ LET w == modifyGraphQLSchemaDirectory(tree, schemaDirectoryPath,
                                           Head(bgWalks))
     IN  pending' = pending (+) SeqToBag(w.issued)
  /\ bgWalks' = Tail(bgWalks)
  /\ UNCHANGED <<config, project, process, landed>>

\* an append issued by fs.appendFile reaches the disk
AppendLands ==
  /\ UNCHANGED out
  /\ ~halted
  /\ \E a \in BagToSet(pending) :
       /\ pending' = pending (-) SetToBag({a})
       /\ landed' = landed (+) SetToBag({a})
  /\ UNCHANGED <<config, project, process, bgWalks>>

\* what the running policy returns after its last setNotificationFlag
result ==
  IF cur.policy = security THEN "void"
  ELSE IF cur.schemaModified THEN "true" ELSE "false"

\* a helper that takes the config file for missing
setNotificationFlagSkips(name, value) ==
  /\ pc' = "idle"
  /\ ret' = result
  /\ UNCHANGED cliJson

\* setNotificationFlag, lines 10-20: ensureFeatureFlag resolved; the config
\* is read and, if there is one, written with the flag set to value
setNotificationFlag(name, value) ==
  IF cliExists
    THEN /\ cliJson' = withFlag(cliJson, name, value)
         /\ pc' = "reload"
         /\ UNCHANGED ret
    ELSE /\ pc' = "idle"
         /\ ret' = result
         /\ UNCHANGED cliJson

EnsureDone ==
  /\ UNCHANGED out
  /\ pc = "ensure" /\ ~halted
  /\ setNotificationFlag(flagName, FALSE)
  /\ UNCHANGED <<cliExists, ffValues, project, disk, cur, telemetry,
                 nextTick, halted, calls, shown>>

\* setNotificationFlag, lines 20-22: reloadValues resolved; the policy returns
ReloadDone ==
  /\ UNCHANGED out
  /\ pc = "reload" /\ ~halted
  /\ ffValues' = reloadValues
  /\ pc' = "idle"
  /\ ret' = result
  /\ UNCHANGED <<cliExists, cliJson, project, disk, cur, telemetry,
                 nextTick, halted, calls, shown>>

\* the next tick: the process exits
Halt ==
  /\ UNCHANGED out
  /\ exitRequested /\ ~halted
  /\ halted' = TRUE
  /\ UNCHANGED <<config, project, disk, pc, cur, telemetry, nextTick,
                 calls, shown, ret>>

\* ------------------------------------------------------------------ inputs
\* Schemas of the projects the policies run on.
PostOpen ==   \* subscriptions: null, a non-null @auth field, @auth and key
  [name |-> "Post",
   directives |-> <<Directive("model", <<Argument("subscriptions", NullValue)>>),
                    Directive("auth", <<>>),
                    Directive("primaryKey", <<>>)>>,
   fields |-> <<Field("NonNullType", <<Directive("auth", <<>>)>>)>>]
PostQuiet ==  \* subscriptions: { level: off }, a non-null @auth field
  [name |-> "Post",
   directives |->
     <<Directive("model",
         <<Argument("subscriptions",
             Object(<<Argument("level", Scalar("EnumValue", "off"))>>))>>)>>,
   fields |-> <<Field("NonNullType", <<Directive("auth", <<>>)>>),
                Field("NamedType", <<>>)>>]
TodoAuth ==   \* @auth on the type, nothing else
  [name |-> "Todo",
   directives |-> <<Directive("model", <<>>), Directive("auth", <<>>)>>,
   fields |-> <<Field("NamedType", <<Directive("auth", <<>>)>>)>>]
NoteKey ==    \* a key, no @auth
  [name |-> "Note",
   directives |-> <<Directive("model", <<>>), Directive("primaryKey", <<>>)>>,
   fields |-> <<Field("NonNullType", <<>>)>>]

Schemas == { <<>>, <<PostOpen>>, <<PostQuiet>>, <<TodoAuth, NoteKey>> }

\* Contents of <api>/build/resolvers.
ListTodos(code) ==
  [name |-> <<"Query.list", "Todos", ".req.vtl">>, code |-> code]
GetTodo == [name |-> <<"Query.get", "Todo", ".req.vtl">>, code |-> <<"SET">>]
DotFile == [name |-> <<".", "DS_Store">>, code |-> <<"SET">>]

ListNotes(code) ==
  [name |-> <<"Query.list", "Notes", ".req.vtl">>, code |-> code]

ResolverDirs ==
  { <<ListTodos(<<"X", "SET", "WS", "IF", "X">>), GetTodo, DotFile>>,
    <<DotFile, GetTodo, ListTodos(<<"X", "SET", "WS", "X">>)>>,
    <<ListNotes(<<"SET">>), ListTodos(<<"SET", "WS">>)>> }

\* Layouts of the API resource directory: schema.graphql, schema/, or none.
File(name) == [name |-> name, kind |-> "file", children |-> <<>>]
Dir(name, children) == [name |-> name, kind |-> "dir", children |-> children]

Layouts ==
  { [file |-> TRUE,  dir |-> FALSE, tree |-> <<>>],
    [file |-> TRUE,  dir |-> TRUE,  tree |-> <<File(PlainName)>>],
    [file |-> FALSE, dir |-> TRUE,
     tree |-> <<File(HiddenName), Dir(PlainName, <<File(PlainName)>>)>>],
    [file |-> FALSE, dir |-> TRUE,  tree |-> <<File(HiddenName)>>],
    [file |-> FALSE, dir |-> FALSE, tree |-> <<>>] }

ApiLists ==
  { <<>>, <<AppSync>>, <<"API Gateway", AppSync>>, <<AppSync, AppSync>> }

\* values that stand for a config file that is not there
NoFeatures ==
  [showfieldauthnotification |-> FALSE,
   securityEnhancementNotification |-> FALSE,
   transformerversion |-> 1]

\* no function has been applied alone
NoOut ==
  [done |-> "none", display |-> FALSE, fieldAuthTypes |-> {},
   v2Auth |-> FALSE, authWithKey |-> FALSE, toSecure |-> <<>>]

\* the process before its first policy invocation
InitProcess ==
  /\ pc = "idle"
  /\ cur = Invocation("none", FALSE)
  /\ bgWalks = <<>>
  /\ pending = EmptyBag
  /\ landed = EmptyBag
  /\ telemetry = [started |-> 0, done |-> 0]
  /\ nextTick = <<>>
  /\ halted = FALSE
  /\ calls = 0
  /\ shown = [p \in Policies |-> 0]
  /\ ret = "none"
  /\ out = NoOut

Init ==
  /\ ffValues \in Features
  /\ cliExists \in BOOLEAN
  /\ cliJson = IF cliExists THEN ffValues ELSE NoFeatures
  /\ meta \in [api : ApiLists, auth : BOOLEAN]
  /\ apiDirExists \in (IF Len(apiNames) = 0 THEN {FALSE} ELSE BOOLEAN)
  /\ schema \in (IF apiDirExists THEN Schemas ELSE { <<>> })
  /\ resolverDirExists \in (IF apiDirExists THEN BOOLEAN ELSE {FALSE})
  /\ resolvers \in (IF resolverDirExists THEN ResolverDirs ELSE { <<>> })
  /\ \E l \in (IF apiDirExists THEN Layouts
                               ELSE { x \in Layouts : ~x.file /\ ~x.dir }) :
       /\ schemaFileExists = l.file
       /\ schemaDirectoryExists = l.dir
       /\ tree = l.tree
  /\ InitProcess

\* the schema is edited between two policy invocations
ChangeSchema ==
  /\ UNCHANGED out
  /\ pc = "idle" /\ ~exitRequested /\ ~halted
  /\ apiDirExists
  /\ calls > 0 /\ calls < MaxCalls
  /\ schema' \in Schemas \ {schema}
  /\ UNCHANGED <<config, meta, apiDirExists, resolvers, resolverDirExists,
                 schemaFileExists, schemaDirectoryExists, tree, process, disk>>

Next ==
  \/ notifyFieldAuthSecurityChange
  \/ notifyListQuerySecurityChange
  \/ notifySecurityEnhancement
  \/ AnswerYes
  \/ AnswerNo
  \/ EmitDone
  \/ TouchDone
  \/ EnsureDone
  \/ ReloadDone
  \/ BackgroundWalk
  \/ AppendLands
  \/ Halt
  \/ ChangeSchema

Spec == Init /\ [][Next]_vars

\* ------------------------------------------- the touch service on its own
\* modifyGraphQLSchema applied to every layout of the API directory.
InitTouch ==
  /\ ffValues = [NoFeatures EXCEPT !.transformerversion = 2]
  /\ cliExists = TRUE
  /\ cliJson = ffValues
  /\ meta = [api |-> <<AppSync>>, auth |-> TRUE]
  /\ apiDirExists = TRUE
  /\ schema = <<>>
  /\ resolverDirExists = FALSE
  /\ resolvers = <<>>
  /\ schemaFileExists \in BOOLEAN
  /\ schemaDirectoryExists \in BOOLEAN
  /\ tree \in (IF schemaDirectoryExists THEN Trees ELSE { <<>> })
  /\ InitProcess

\* modifyGraphQLSchema(apiResourceDir) is called
TouchSchema ==
  /\ UNCHANGED out
  /\ pc = "idle" /\ calls = 0
  /\ calls' = 1
  /\ LET m == modifyGraphQLSchema(schemaFileExists, schemaDirectoryExists, 1)
     IN  /\ pending' = pending (+) SeqToBag(m.issued)
         /\ bgWalks' = IF m.walk THEN Append(bgWalks, 1) ELSE bgWalks
  /\ UNCHANGED <<config, project, landed, pc, cur, telemetry, nextTick,
                 halted, shown, ret>>

NextTouch ==
  \/ TouchSchema
  \/ BackgroundWalk
  \/ AppendLands

SpecTouch == InitTouch /\ [][NextTouch]_vars

\* ------------------------------------- the directive indexer on its own
\* The functions of the schema, applied to schemas of at most two types.
Model(args) == Directive("model", args)
Subscriptions(v) == Argument("subscriptions", v)
Level(v) == Argument("level", v)
Off == Scalar("EnumValue", "off")
On == Scalar("EnumValue", "on")

\* what a type may say about its model
ModelDirectives ==
  { <<>>,
    <<Model(<<>>)>>,
    <<Model(<<Subscriptions(NullValue)>>)>>,
    <<Model(<<Subscriptions(Object(<<Level(Off)>>))>>)>>,
    <<Model(<<Subscriptions(Object(<<Level(NullValue)>>))>>)>>,
    <<Model(<<Subscriptions(Object(<<Level(On)>>))>>)>>,
    <<Model(<<Subscriptions(Object(<<Argument("onCreate", Off),
                                     Level(Off)>>))>>)>>,
    <<Model(<<Subscriptions(Object(<<Argument("onCreate", NullValue)>>))>>)>>,
    <<Model(<<Subscriptions(Object(<<>>))>>)>>,
    <<Model(<<Subscriptions(Scalar("StringValue", "off"))>>)>>,
    <<Model(<<Argument("queries", NullValue)>>)>>,
    <<Model(<<Argument("queries", NullValue), Subscriptions(NullValue)>>)>>,
    <<Directive("searchable", <<Subscriptions(NullValue)>>)>> }

\* the other directives of a type
TypeDirectives ==
  { <<>>,
    <<Directive("auth", <<>>)>>,
    <<Directive("primaryKey", <<>>)>>,
    <<Directive("auth", <<>>), Directive("primaryKey", <<>>)>> }

FieldKinds ==
  { Field(t, d) : t \in {"NonNullType", "NamedType"},
                  d \in { <<>>, <<Directive("auth", <<>>)>> } }

FieldLists ==
  { <<>> } \cup { <<f>> : f \in FieldKinds }
           \cup { <<f, g>> : f \in FieldKinds, g \in FieldKinds }

\* the first type of a schema: every model with no other directive, and
\* every other directive with a plain model or none
FirstTypes ==
  { [name |-> "A", directives |-> m \o t, fields |-> f] :
      m \in ModelDirectives, t \in { <<>> }, f \in FieldLists }
  \cup
  { [name |-> "A", directives |-> m \o t, fields |-> f] :
      m \in { <<>>, <<Model(<<>>)>> }, t \in TypeDirectives,
      f \in FieldLists }

\* the second type of a schema
SecondTypes ==
  { [name |-> "B", directives |-> m \o t, fields |-> <<f>>] :
      m \in { <<>>, <<Model(<<Subscriptions(NullValue)>>)>> },
      t \in TypeDirectives, f \in FieldKinds }

IndexSchemas ==
  { <<>> } \cup { <<a>> : a \in FirstTypes }
           \cup { <<a, b>> : a \in FirstTypes, b \in SecondTypes }

InitIndex ==
  /\ ffValues \in { [NoFeatures EXCEPT !.transformerversion = v] : v \in 1..2 }
  /\ cliExists = TRUE
  /\ cliJson = ffValues
  /\ meta = [api |-> <<AppSync>>, auth |-> TRUE]
  /\ apiDirExists = TRUE
  /\ schema \in IndexSchemas
  /\ resolverDirExists = FALSE
  /\ resolvers = <<>>
  /\ schemaFileExists = TRUE
  /\ schemaDirectoryExists = FALSE
  /\ tree = <<>>
  /\ InitProcess

\* the schema is parsed and each of its functions is applied to it
IndexSchema ==
  /\ out.done = "none"
  /\ out' = [out EXCEPT
       !.done = "index",
       !.fieldAuthTypes = hasFieldAuthDirectives(schema),
       !.display = displayAuthNotification(collectDirectivesByType(schema),
                                           hasFieldAuthDirectives(schema)),
       !.v2Auth = hasV2AuthDirectives(schema),
       !.authWithKey = notifyAuthWithKey(schema)]
  /\ UNCHANGED <<config, project, process, disk>>

NextIndex == IndexSchema

SpecIndex == InitIndex /\ [][NextIndex]_vars

\* ----------------------------------- the resolver detector on its own
\* The detector of unsafe list-query templates, applied to every directory
\* of at most two resolver files.
Pieces == {"SET", "WS", "IF", "X"}

Codes ==
  { <<>> } \cup { <<a>> : a \in Pieces }
           \cup { <<a, b>> : a \in Pieces, b \in Pieces }
           \cup { <<a, b, c>> : a \in Pieces, b \in Pieces, c \in Pieces }

\* the names of a first and of a second file of the directory
FileNames(type) ==
  { <<"Query.list", type, ".req.vtl">>,
    <<"Query.list", type, ".res.vtl">>,
    <<"Query.get", type, ".req.vtl">>,
    <<".", type, ".req.vtl">> }

ResolverFiles(type) == [name : FileNames(type), code : Codes]

DetectDirs ==
  { <<>> } \cup { <<f>> : f \in ResolverFiles("Todo") }
           \cup { <<f, g>> : f \in ResolverFiles("Todo"),
                             g \in ResolverFiles("Note") }

InitDetect ==
  /\ ffValues = [NoFeatures EXCEPT !.transformerversion = 2]
  /\ cliExists = TRUE
  /\ cliJson = ffValues
  /\ meta = [api |-> <<AppSync>>, auth |-> TRUE]
  /\ apiDirExists = TRUE
  /\ schema = <<>>
  /\ resolverDirExists = TRUE
  /\ resolvers \in DetectDirs
  /\ schemaFileExists = TRUE
  /\ schemaDirectoryExists = FALSE
  /\ tree = <<>>
  /\ InitProcess

\* the resolvers are loaded and the unsafe list-query templates picked
DetectResolvers ==
  /\ out.done = "none"
  /\ out' = [out EXCEPT !.done = "detect",
                        !.toSecure = resolversToSecure(loadResolvers)]
  /\ UNCHANGED <<config, project, process, disk>>

NextDetect == DetectResolvers

SpecDetect == InitDetect /\ [][NextDetect]_vars

\* ------------------------------------------------------------------ claims
Gated == {fieldAuth, security}

\* the appends issued so far, on disk or not
touched == pending (+) landed

\* the appends issued on behalf of invocation n
issuedBy(n) == { a \in BagToSet(touched) : a.by = n }

\* invocation n has touched nothing and has no walk under way
Untouched(n) == issuedBy(n) = {} /\ \A i \in DOMAIN bgWalks : bgWalks[i] # n

\* the flag of policy p is cleared, in the config file and in the process
Cleared(p) == ~cliJson[flagOf(p)] /\ ~ffValues[flagOf(p)]

\* C1 as stated: calling any of the three policies twice in sequence never
\* shows its prompt twice, whatever the project (config file or not).
C1_NeverPromptsTwice == \A p \in Policies : shown[p] <= 1

\* C1 amended: on a project that has its config file, a flag-gated policy
\* never prompts twice, and a call of it that follows a prompting call
\* returns "not triggered" without prompting.
C1_GatedIdempotent ==
  cliExists =>
    \A p \in Gated :
      /\ shown[p] <= 1
      /\ (shown[p] = 1 /\ cur.policy = p /\ ~cur.prompted /\ pc = "idle")
           => ret = (IF p = security THEN "void" ELSE "false")

\* fieldAuth was called a second time, after it prompted and Yes was
\* answered, with its trigger condition still true, and did not prompt
C1_Witness ==
  /\ cliExists /\ calls = 2 /\ pc = "idle"
  /\ cur.policy = fieldAuth /\ ~cur.prompted /\ ret = "false"
  /\ shown[fieldAuth] = 1
  /\ getApiResourceDir
  /\ displayAuthNotification(collectDirectivesByType(schema),
                             hasFieldAuthDirectives(schema))

\* C2: a one-shot flag is never re-armed: no step turns a flag that is false
\* to true, in the process or in the config file; no step that starts with
\* the flag false shows the policy's prompt; and an invocation of a gated
\* policy that found its flag false neither prompts nor touches the schema.
C2_NeverRearmed ==
  /\ [](\A p \in Gated :
          (cur.policy = p /\ ~cur.gate)
            => (~cur.prompted /\ pc = "idle" /\ Untouched(calls)))
  /\ [][\A p \in Gated :
          /\ ~ffValues[flagOf(p)] => ~ffValues'[flagOf(p)]
          /\ ~cliJson[flagOf(p)] => ~cliJson'[flagOf(p)]
          /\ ~ffValues[flagOf(p)] => shown'[p] = shown[p]]_vars

\* the security policy ran with its flag false on a project where it would
\* otherwise prompt, after an earlier invocation and a schema change
C2_Witness ==
  /\ calls = 2 /\ pc = "idle"
  /\ cur.policy = security /\ ~cur.gate /\ ~cur.prompted
  /\ ~ffValues[securityFlag]
  /\ Len(apiNames) = 1 /\ apiDirExists
  /\ meta.auth /\ notifyAuthWithKey(schema)

\* C3 as stated: every invocation of a gated policy that starts with the
\* flag true ends (returns, or is ended by the exit) with the flag persisted
\* false.
C3_AlwaysCleared ==
  \A p \in Gated :
    (cur.policy = p /\ cur.gate /\ (pc = "idle" \/ halted))
      => (cliExists /\ Cleared(p))

\* C3 amended: every invocation of a gated policy that starts with the flag
\* true and returns, on a project that has its config file, ends with the
\* flag cleared; without a config file the flag stays as it was.
C3_ClearedOnReturn ==
  \A p \in Gated :
    (cur.policy = p /\ cur.gate /\ pc = "idle")
      => IF cliExists THEN Cleared(p) ELSE ffValues[flagOf(p)]

\* the security policy prompted, Yes was answered, and it returned
C3_Witness ==
  /\ cur.policy = security /\ cur.gate /\ cur.answer = "yes"
  /\ pc = "idle" /\ cliExists /\ Cleared(security)

\* C4: when the prompt is answered No, nothing after the termination request
\* takes effect: no append is issued and the schema is not marked modified.
C4_DeclineHalts ==
  cur.answer = "no" => (Untouched(calls) /\ ~cur.schemaModified)

\* C5: a success event is emitted exactly when the prompt is answered No, it
\* is emitted once, and the exit (code 0) is requested only after the
\* emission has completed; on every other path nothing is emitted and no
\* exit is requested.
C5_TelemetryThenExit ==
  /\ telemetry.done <= telemetry.started
  /\ telemetry.started = (IF cur.answer = "no" THEN 1 ELSE 0)
  /\ exitRequested => (nextTick = <<0>> /\ telemetry.done = 1)
  /\ exitRequested <=> (cur.answer = "no" /\ pc # "emit")
  /\ halted => exitRequested

\* the list-query prompt was declined and the process has exited
C5_Witness ==
  /\ halted /\ cur.policy = listQuery /\ cur.answer = "no"
  /\ telemetry = [started |-> 1, done |-> 1]

\* C6: a gated policy called with its flag false is a no-op: the call
\* returns at once (false for notifyFieldAuthSecurityChange) and leaves the
\* prompts, the config, the project files, the appends and the telemetry as
\* they were.
C6_FlagOffNoOp ==
  [][\A p \in Gated :
       (calls' = calls + 1 /\ cur'.policy = p /\ ~ffValues[flagOf(p)])
         => /\ pc' = "idle" /\ ~cur'.prompted
            /\ ret' = (IF p = fieldAuth THEN "false" ELSE "void")
            /\ UNCHANGED <<config, project, disk, telemetry, nextTick,
                           halted, shown>>]_vars

\* notifyFieldAuthSecurityChange returned false on a project where only the
\* flag keeps it from prompting
C6_Witness ==
  /\ cur.policy = fieldAuth /\ ~cur.gate /\ pc = "idle" /\ ret = "false"
  /\ calls = 1
  /\ getApiResourceDir
  /\ displayAuthNotification(collectDirectivesByType(schema),
                             hasFieldAuthDirectives(schema))

\* C7: no step of a notifyListQuerySecurityChange invocation changes the
\* config file or the process-wide flag values, and its prompt is shown
\* whatever the values of the two flags are.
C7_ListQueryNoFlag ==
  [][((calls' = calls + 1 /\ cur'.policy = listQuery)
        \/ (cur.policy = listQuery /\ pc # "idle"))
       => UNCHANGED config]_vars

\* the list-query policy prompted, touched the schema and returned true with
\* both flags still set in the config file
C7_Witness ==
  /\ cur.policy = listQuery /\ cur.answer = "yes" /\ pc = "idle"
  /\ ret = "true"
  /\ cliExists /\ cliJson[fieldAuthFlag] /\ cliJson[securityFlag]
  /\ cliJson = ffValues

\* the project has not exactly one AppSync API, or its directory is missing
NoSingleApi == Len(apiNames) # 1 \/ ~apiDirExists

\* C8 as stated: notifySecurityEnhancement with its flag true, on a project
\* without exactly one AppSync API or without the API's directory, shows no
\* prompt, touches nothing, clears the flag and returns.
C8_ClearsWithoutPrompt ==
  (cur.policy = security /\ cur.gate /\ NoSingleApi)
    => /\ ~cur.prompted /\ Untouched(calls)
       /\ pc \in {"ensure", "reload", "idle"}
       /\ pc = "idle" => (ret = "void" /\ ~ffValues[securityFlag])

\* C8 amended: as C8, the flag being cleared when the project has its config
\* file, and left as it was when it has none.
C8_ClearsIfConfig ==
  (cur.policy = security /\ cur.gate /\ NoSingleApi)
    => /\ ~cur.prompted /\ Untouched(calls)
       /\ pc \in {"ensure", "reload", "idle"}
       /\ pc = "idle" =>
            /\ ret = "void"
            /\ IF cliExists THEN Cleared(security)
                            ELSE ffValues[securityFlag]

\* two AppSync APIs, a schema that would trigger: the flag was cleared
C8_Witness ==
  /\ cur.policy = security /\ cur.gate /\ pc = "idle"
  /\ Len(apiNames) = 2 /\ apiDirExists
  /\ meta.auth /\ notifyAuthWithKey(schema)
  /\ cliExists /\ Cleared(security) /\ shown[security] = 0

\* every entry on the way to the path, and the entry itself, is not hidden
RECURSIVE Visible(_, _)
Visible(files, rest) ==
  /\ files[rest[1]].name # HiddenName
  /\ Len(rest) = 1 \/ Visible(files[rest[1]].children, Tail(rest))

\* the plain files of the schema directory that no hidden name hides
PlainFiles ==
  { p \in PathsOf(tree, schemaDirectoryPath) :
      EntryAt(tree, Tail(p)).kind = "file" /\ Visible(tree, Tail(p)) }

\* C9: the walk of a schema directory appends one whitespace byte to at most
\* one file, a plain file that is not hidden and lies under no hidden
\* directory, and once the walk is over to exactly one if there is such a
\* file.
C9_OneFileTouched ==
  (~schemaFileExists /\ schemaDirectoryExists) =>
    /\ BagCardinality(touched) <= 1
    /\ \A a \in BagToSet(touched) : a.file \in PlainFiles /\ a.data = " "
    /\ (calls = 1 /\ bgWalks = <<>> /\ PlainFiles # {})
         => BagCardinality(touched) = 1

\* a directory with only a hidden file comes first, the file after it was
\* touched
C9_Witness ==
  /\ ~schemaFileExists /\ schemaDirectoryExists
  /\ tree = <<Dir(PlainName, <<File(HiddenName)>>), File(PlainName)>>
  /\ landed = SetToBag({appendFile(<<1, 2>>, 1)})

\* C10: when schema.graphql exists the touch appends one whitespace byte to
\* it and nothing under the schema directory is touched; when neither
\* schema.graphql nor the schema directory exists the touch does nothing;
\* nothing but a single whitespace byte is ever appended.
C10_TargetSelection ==
  /\ \A a \in BagToSet(touched) : a.data = " " /\ CopiesIn(a, touched) = 1
  /\ schemaFileExists =>
       /\ bgWalks = <<>>
       /\ BagToSet(touched) =
            (IF calls = 1 THEN {appendFile(schemaFilePath, 1)} ELSE {})
  /\ (~schemaFileExists /\ ~schemaDirectoryExists) =>
       (bgWalks = <<>> /\ BagToSet(touched) = {})

\* schema.graphql and a schema directory with a plain file: the file
\* schema.graphql was appended to
C10_Witness ==
  /\ schemaFileExists /\ schemaDirectoryExists /\ PlainFiles # {}
  /\ landed = SetToBag({appendFile(schemaFilePath, 1)})

\* the model directive of a type definition turns subscriptions off: its
\* subscriptions argument is an explicit null, or an object with a level
\* field that is "off" or null
SubscriptionsOff(def) ==
  \E d \in Range(def.directives) :
    /\ d.name = "model"
    /\ \E a \in Range(d.arguments) :
         /\ a.name = "subscriptions"
         /\ \/ a.value.kind = "NullValue"
            \/ /\ a.value.kind = "ObjectValue"
               /\ \E f \in Range(a.value.fields) :
                    /\ f.name = "level"
                    /\ f.value \in {Off, Scalar("StringValue", "off"),
                                    NullValue}

\* a type definition has a field that is non-nullable and carries @auth
NonNullAuthField(def) ==
  \E f \in Range(def.fields) :
    /\ f.type = "NonNullType"
    /\ \E d \in Range(f.directives) : d.name = "auth"

\* C11: displayAuthNotification returns true exactly when the transformer
\* version is 2 and some type both has a model directive whose subscriptions
\* argument is null or an object with level "off" or null, and has a
\* non-nullable field with @auth; a subscriptions argument of any other shape
\* is no match, and two different types that each meet one half give false.
C11_DisplayIffSameType ==
  out.done = "index" =>
    (out.display <=>
       /\ ffValues.transformerversion = 2
       /\ \E def \in Range(schema) :
            SubscriptionsOff(def) /\ NonNullAuthField(def))

\* version 2, the model of type A turns subscriptions off, only type B has a
\* non-nullable @auth field: no notification
C11_Witness ==
  /\ out.done = "index" /\ ~out.display
  /\ ffValues.transformerversion = 2
  /\ Len(schema) = 2
  /\ SubscriptionsOff(schema[1]) /\ ~NonNullAuthField(schema[1])
  /\ NonNullAuthField(schema[2]) /\ ~SubscriptionsOff(schema[2])

\* a type definition carries @auth itself
TypeLevelAuth(def) == \E d \in Range(def.directives) : d.name = "auth"

\* a type definition has @auth on one of its fields
FieldLevelAuth(def) ==
  \E f \in Range(def.fields) : \E d \in Range(f.directives) : d.name = "auth"

\* C14: hasV2AuthDirectives returns true exactly when the transformer
\* version is 2 and some type definition itself carries @auth; @auth on
\* fields alone does not count.
C14_TypeLevelAuthAndV2 ==
  out.done = "index" =>
    (out.v2Auth <=>
       /\ ffValues.transformerversion = 2
       /\ \E def \in Range(schema) : TypeLevelAuth(def))

\* version 2 and @auth on a field of each type but on no type: false
C14_Witness ==
  /\ out.done = "index" /\ ~out.v2Auth
  /\ ffValues.transformerversion = 2
  /\ Len(schema) = 2
  /\ \A def \in Range(schema) : FieldLevelAuth(def) /\ ~TypeLevelAuth(def)

\* C15: hasFieldAuthDirectives returns exactly the names of the types that
\* have a field which is both non-nullable and carries @auth: a type whose
\* @auth fields are all nullable, or whose non-nullable fields carry no
\* @auth, is not in the set.
C15_ExactFieldAuthSet ==
  out.done = "index" =>
    out.fieldAuthTypes =
      { def.name : def \in { d \in Range(schema) : NonNullAuthField(d) } }

\* type A has a nullable field with @auth and a non-nullable field without
\* it and is left out, type B has a non-nullable field with @auth and is in
C15_Witness ==
  /\ out.done = "index"
  /\ Len(schema) = 2
  /\ schema[1].fields = <<Field("NamedType", <<Directive("auth", <<>>)>>),
                          Field("NonNullType", <<>>)>>
  /\ out.fieldAuthTypes = {schema[2].name}

\* the first piece of code from position i on that is not whitespace is the
\* null/empty guard
RECURSIVE GuardFollows(_, _)
GuardFollows(code, i) ==
  /\ i <= Len(code)
  /\ \/ code[i] = "IF"
     \/ code[i] = "WS" /\ GuardFollows(code, i + 1)

\* a template is unsafe: it holds the filter-expression assignment without
\* the guard right after it
Unsafe(code) ==
  \E i \in DOMAIN code : code[i] = "SET" /\ ~GuardFollows(code, i + 1)

\* the resolver files that are list-query request templates
ListQueryTemplates ==
  { f \in Range(resolvers) :
      /\ f.name[1] = "Query.list"
      /\ f.name[Len(f.name)] = ".req.vtl" }

\* C12: the detector returns exactly the unsafe templates: the body of each
\* file named Query.list*.req.vtl whose assignment is not followed by the
\* guard, and no other body, whatever the number and order of the files.
C12_ExactlyTheUnsafe ==
  out.done = "detect" =>
    Range(out.toSecure) = { f.code : f \in { g \in ListQueryTemplates :
                                               Unsafe(g.code) } }

\* the step is the call of policy p
Calls(p) == calls' = calls + 1 /\ cur'.policy = p

\* C13: notifyListQuerySecurityChange shows the prompt exactly when the API
\* resource directory resolves, the resolver directory exists and holds an
\* unsafe list-query request template, the transformer version is 2 and some
\* type carries @auth itself; in every other case, a missing resolver
\* directory included, it returns false with no prompt and no schema touch.
C13_ListQueryPromptIff ==
  /\ [][Calls(listQuery) =>
          (cur'.prompted <=>
             /\ getApiResourceDir
             /\ resolverDirExists
             /\ \E f \in ListQueryTemplates : Unsafe(f.code)
             /\ ffValues.transformerversion = 2
             /\ \E def \in Range(schema) : TypeLevelAuth(def))]_vars
  /\ []((cur.policy = listQuery /\ ~cur.prompted)
          => (pc = "idle" /\ ret = "false" /\ Untouched(calls)))

\* the list-query policy is at its prompt
C13_Witness ==
  /\ cur.policy = listQuery /\ cur.prompted /\ pc = "prompt"
  /\ \E f \in ListQueryTemplates : Unsafe(f.code)
  /\ Untouched(calls)

\* a type definition carries @primaryKey itself
TypeLevelKey(def) == \E d \in Range(def.directives) : d.name = "primaryKey"

\* C16: notifySecurityEnhancement, called with its flag true, exactly one
\* AppSync API and its resource directory there, shows the prompt exactly
\* when project metadata has an auth resource and one type has both @auth and
\* @primaryKey; when it does not prompt it never touches the schema.
C16_SecurityPromptIff ==
  /\ [][(/\ Calls(security)
         /\ ffValues.securityEnhancementNotification
         /\ Len(apiNames) = 1
         /\ apiDirExists) =>
          (cur'.prompted <=>
             /\ meta.auth
             /\ \E def \in Range(schema) :
                  TypeLevelAuth(def) /\ TypeLevelKey(def))]_vars
  /\ []((cur.policy = security /\ ~cur.prompted) => Untouched(calls))

\* @auth and @primaryKey sit on two different types, metadata has an auth
\* resource: the policy goes on to clear its flag without a prompt
C16_Witness ==
  /\ cur.policy = security /\ cur.gate /\ ~cur.prompted /\ pc = "ensure"
  /\ meta.auth /\ Len(apiNames) = 1 /\ apiDirExists
  /\ Len(schema) = 2
  /\ TypeLevelAuth(schema[1]) /\ ~TypeLevelKey(schema[1])
  /\ TypeLevelKey(schema[2]) /\ ~TypeLevelAuth(schema[2])
  /\ Untouched(calls)

\* the API directory holds a schema file that the touch can append to
Touchable == schemaFileExists \/ (schemaDirectoryExists /\ PlainFiles # {})

\* C17, on the layouts that hold a file to touch (schema.graphql, or a schema
\* directory with a plain file): the boolean that
\* notifyFieldAuthSecurityChange and notifyListQuerySecurityChange return
\* tells whether the schema was modified: it is true exactly when the
\* invocation appended a whitespace byte to a schema file.
C17_ReturnsWhetherModified ==
  (cur.policy \in {fieldAuth, listQuery} /\ pc = "idle" /\ Touchable)
    => (ret = "true" <=> issuedBy(calls) # {})

\* the name of the flag the running policy gives to setNotificationFlag
GivenFlag ==
  IF cur.policy = security THEN "securityEnhancementNotification"
                           ELSE "showfieldauthnotification"

\* C18: setNotificationFlag(projectPath, flagName, value), called by the
\* policies with value false.  With a project config: the config written
\* differs from the one read in flagName only, which is now value, and the
\* process-wide values are reloaded from it afterwards, so getBoolean sees
\* value.  Without a project config: nothing is created or written, nothing
\* is reloaded, and the helper returns.
C18_FlagFrame ==
  [][/\ (pc = "ensure" /\ pc' # "ensure") =>
          IF cliExists
            THEN /\ cliExists'
                 /\ DOMAIN cliJson' = DOMAIN cliJson
                 /\ cliJson'[GivenFlag] = FALSE
                 /\ \A f \in DOMAIN cliJson \ {GivenFlag} :
                      cliJson'[f] = cliJson[f]
                 /\ ffValues' = ffValues
                 /\ pc' = "reload"
            ELSE /\ ~cliExists'
                 /\ cliJson' = cliJson
                 /\ ffValues' = ffValues
                 /\ pc' = "idle"
     /\ (pc = "reload" /\ pc' # "reload") =>
          /\ cliExists' /\ cliJson' = cliJson
          /\ ffValues' = cliJson
          /\ ffValues'[GivenFlag] = FALSE
          /\ pc' = "idle"]_vars

\* notifySecurityEnhancement has cleared its flag in the config file and in
\* the process, and the flag of the field-auth policy is still set in both
C18_Witness ==
  /\ cur.policy = security /\ cur.gate /\ pc = "idle"
  /\ cliExists
  /\ ~cliJson.securityEnhancementNotification
  /\ ~ffValues.securityEnhancementNotification
  /\ cliJson.showfieldauthnotification
  /\ ffValues.showfieldauthnotification

\* the running invocation took the schema-directory path of the touch
DirectoryPath ==
  /\ cur.policy \in Policies /\ cur.prompted /\ cur.answer # "none"
  /\ ~schemaFileExists /\ schemaDirectoryExists

\* the running invocation has cleared its flag in the config file
ClearedOwnFlag ==
  /\ cur.policy \in Gated /\ cur.gate
  /\ cliExists /\ ~cliJson[flagOf(cur.policy)]

\* the walks that nobody awaits
walking == Range(bgWalks)

prompts == shown[fieldAuth] + shown[listQuery] + shown[security]

\* no invocation has issued more than one append
OneAppendEach ==
  \A a \in BagToSet(touched) :
    /\ CopiesIn(a, touched) = 1
    /\ \A b \in BagToSet(touched) : a.by = b.by => a = b

\* appends and walks belong to invocations that showed their prompt
OnlyAfterPrompt ==
  /\ Cardinality({ a.by : a \in BagToSet(touched) } \cup walking) <= prompts
  /\ (issuedBy(calls) # {} \/ calls \in walking)
       => (cur.prompted /\ cur.answer # "none")

====
